---------------------------- MODULE Spec2Model ----------------------------
(***************************************************************************)
(* Model of the two n8n command-line tools                                 *)
(*   skills/n8n-expert/scripts/workflow-crud.py      (tool "workflow-crud")*)
(*   skills/n8n-expert/scripts/execution-manager.py  (tool                 *)
(*                                                    "execution-manager") *)
(*                                                                         *)
(* Spec          one invocation of either tool: main, the command handler, *)
(*               every HTTP request it issues and the server's answer.     *)
(* SpecDuration  format_duration applied to a pair of timestamps.          *)
(* SpecStats     the aggregation of cmd_stats applied to a list.           *)
(* SpecNodes     the node listing of cmd_debug applied to a run-data map.  *)
(* SpecItems     the item counts of cmd_debug applied to a node's attempts.*)
(* SpecTrigger   cmd_trigger and trigger_webhook applied to a command line.*)
(***************************************************************************)
EXTENDS Integers, Sequences, FiniteSets, TLC

VARIABLES
    tool,         \* which script runs
    args,         \* argparse namespace: command, key, force, test, verbose
    pc,           \* position of the invocation
    client,       \* TRUE once N8nClient / ExecutionManager is constructed
    requests,     \* HTTP requests issued so far: [op, outcome]
    stdout,       \* lines printed to standard output (tags)
    stderr,       \* lines printed to standard error (tags)
    exit_code,    \* -1 while running, else the process exit status
    raised,       \* exception that ended the invocation ("" if none)
    confirm,      \* cmd_delete: the answer typed at the prompt, None before
    interrupted,  \* TRUE once Ctrl+C (KeyboardInterrupt) was delivered
    seen_ids,     \* cmd_watch: seen_ids
    last_check,   \* cmd_watch: last_check (None or the time of the poll)
    executions,   \* cmd_watch: what is left of reversed(executions)
    polls,        \* cmd_watch: number of polls answered so far
    last_result,  \* cmd_watch: the list the latest poll returned
    seen_before,  \* cmd_watch: seen_ids when the latest poll was answered
    printed_now,  \* cmd_watch: ids printed during the latest poll
    printed_all,  \* cmd_watch: ids printed since the start, in order
    dropped,      \* cmd_watch: ids in seen_ids that a later poll left out
    execution,    \* cmd_debug: the record get_execution returned
    node_times,   \* cmd_debug: node_times after the sort
    node_lines,   \* cmd_debug: what the node loop printed, one entry per node
    all_execs,    \* cmd_stats: the list list_executions returned
    stats,        \* cmd_stats: what it printed
    start,        \* format_duration: first argument
    stop,         \* format_duration: second argument
    duration      \* format_duration: the value returned

cliVars == <<tool, args, pc, client, requests, stdout, stderr, exit_code,
             raised, confirm, interrupted>>
watchVars == <<seen_ids, last_check, executions, polls, last_result,
               seen_before, printed_now, printed_all, dropped>>
debugVars == <<execution, node_times, node_lines>>
statsVars == <<all_execs, stats>>
durationVars == <<start, stop, duration>>
vars == <<cliVars, watchVars, debugVars, statsVars, durationVars>>

\* what the actions of an invocation leave alone, but for the few that read
\* the prompt, take the interrupt or hold the answer to debug / stats
rest == <<tool, args, durationVars>>
quiet == <<rest, confirm, interrupted, debugVars, statsVars>>

-----------------------------------------------------------------------------
(* Bounds *)
MaxPolls == 3
MaxPollLen == 2
MaxId == 2
MaxJitter == 1
MaxExecs == 3
MaxNodes == 2
MaxNameLen == 2
MaxBranches == 3
MaxItems == 2
MaxPathLen == 2

-----------------------------------------------------------------------------
(* Python values *)

\* None, where the other values of the variable are tuples
None == <<>>

\* dict.get(key, default)
Get(d, k, default) == IF k \in DOMAIN d THEN d[k] ELSE default

RECURSIVE Reversed(_)
Reversed(s) == IF s = <<>> THEN <<>> ELSE Append(Reversed(Tail(s)), Head(s))

SeqSet(s) == {s[i] : i \in DOMAIN s}

\* all sequences over S of length at most n
SeqsUpTo(S, n) == UNION {[1..k -> S] : k \in 0..n}

-----------------------------------------------------------------------------
(* Command line *)

Tools == {"workflow-crud", "execution-manager"}

CrudCommands == {"list", "get", "create", "update", "delete", "activate",
                 "deactivate", "export", "executions", "execution", "trigger"}

ExecCommands == {"list", "get", "debug", "errors", "stats", "watch"}

CommandsOf(t) == IF t = "workflow-crud" THEN CrudCommands ELSE ExecCommands

\* the answer of the server (or of the network) to one request
Outcomes == {"ok", "network_error", "http_error"}

Ids == 1..MaxId

\* what GET /api/v1/executions?limit=10 may answer to cmd_watch
WatchStatuses == {"success", "running"}
PollResults == SeqsUpTo([id : Ids, status : WatchStatuses], MaxPollLen)

\* what GET /api/v1/executions?status=error may answer to cmd_errors
ErrorResults == SeqsUpTo([id : Ids, status : {"error"}], MaxPollLen)

\* argparse: --force exists for delete only, --test for trigger only; of the
\* --verbose flags only the one of debug is read by the model (that of
\* workflow-crud get only selects the JSON dump); a flag the command does not
\* have stays FALSE
ArgSpace == {a \in [command : CrudCommands \cup ExecCommands \cup {""},
                    key : {"", "secret"},
                    force : BOOLEAN, test : BOOLEAN, verbose : BOOLEAN] :
                /\ a.force => a.command = "delete"
                /\ a.test => a.command = "trigger"
                /\ a.verbose => a.command = "debug"}

\* nothing fetched, nothing computed yet
NoData ==
    /\ execution = None
    /\ node_times = None
    /\ node_lines = None
    /\ all_execs = None
    /\ stats = None
    /\ start = None
    /\ stop = None
    /\ duration = None

\* the state of a process that has not started its work
Fresh ==
    /\ client = FALSE
    /\ requests = <<>>
    /\ stdout = <<>>
    /\ stderr = <<>>
    /\ exit_code = -1
    /\ raised = ""
    /\ confirm = None
    /\ interrupted = FALSE
    /\ seen_ids = {}
    /\ last_check = None
    /\ executions = <<>>
    /\ polls = 0
    /\ last_result = <<>>
    /\ seen_before = {}
    /\ printed_now = <<>>
    /\ printed_all = <<>>
    /\ dropped = {}

Init ==
    /\ tool \in Tools
    /\ args \in {a \in ArgSpace :
                    /\ a.command \in CommandsOf(tool) \cup {""}
                    /\ tool = "execution-manager" => ~a.force /\ ~a.test
                    /\ tool = "workflow-crud" => ~a.verbose}
    /\ pc = "main"
    /\ Fresh
    /\ NoData

-----------------------------------------------------------------------------
(* Ways an invocation ends *)

\* sys.exit(code) after printing `lines` on standard error
SysExit(lines, code) ==
    /\ stderr' = stderr \o lines
    /\ exit_code' = code
    /\ raised' = "SystemExit"
    /\ pc' = "exited"

\* the handler returned: main falls off its end
Return ==
    /\ exit_code' = 0
    /\ raised' = ""
    /\ pc' = "exited"
    /\ UNCHANGED stderr

\* an exception nobody catches: the interpreter prints the traceback, status 1
Uncaught(exc) ==
    /\ stderr' = Append(stderr, "Traceback")
    /\ exit_code' = 1
    /\ raised' = exc
    /\ pc' = "exited"

-----------------------------------------------------------------------------
(* main of both tools, up to the dispatch *)

MainNoCommand ==
    /\ pc = "main"
    /\ args.command = ""
    /\ stdout' = Append(stdout, "help")
    /\ SysExit(<<>>, 1)
    /\ UNCHANGED <<quiet, client, requests, watchVars>>

\* mutant of KeyPresent: main without its `if not args.key` check
KeyPresent_unchecked(a) == TRUE

\* the key check of main: TRUE when main goes on to construct the client
KeyPresent(a) == a.key # ""

MainNoKey ==
    /\ pc = "main"
    /\ args.command # ""
    /\ ~KeyPresent(args)
    /\ SysExit(<<"Error: N8N_API_KEY not set">>, 1)
    /\ UNCHANGED <<quiet, client, requests, stdout, watchVars>>

MainConstruct ==
    /\ pc = "main"
    /\ args.command # ""
    /\ KeyPresent(args)
    /\ client' = TRUE
    /\ pc' = "dispatch"
    /\ UNCHANGED <<quiet, requests, stdout, stderr, exit_code, raised,
                   watchVars>>

Dispatched(t, c) == pc = "dispatch" /\ tool = t /\ args.command = c

-----------------------------------------------------------------------------
(* format_duration *)

\* the instants (milliseconds on the wall clock) a timestamp may name: around
\* 0 s, 1 s, 60 s and 120 s, and 50 ms later for the x.x5 cases of "%.1f"
Anchors == {0, 50, 1000, 1050, 60000, 120000}
Instants == {a + j : a \in Anchors, j \in 0..MaxJitter}

\* an argument of format_duration: None, "", a string fromisoformat rejects,
\* or an ISO timestamp, naive or with an offset ("Z" becomes "+00:00")
Timestamps ==
    {[kind |-> k, ms |-> 0, aware |-> FALSE] : k \in {"none", "empty", "garbage"}}
    \cup [kind : {"iso"}, ms : Instants, aware : BOOLEAN]

\* `not ts`
Falsy(ts) == ts.kind \in {"none", "empty"}

NA == [tier |-> "N/A"]

\* the exception lines 81-83 raise on these arguments, "" if none:
\* fromisoformat rejects the string, or a naive and an aware datetime are
\* subtracted
ParseRaises(t1, t2) ==
    IF t1.kind # "iso" \/ t2.kind # "iso" THEN "ValueError"
    ELSE IF t1.aware # t2.aware THEN "TypeError"
    ELSE ""

\* mutant of Caught: the try block without its except clause
Caught_nothing(exc) == FALSE

\* `except Exception`
Caught(exc) == TRUE

\* f"{total_seconds:.1f}" in tenths of a second; binary floating point
\* decides an exact x.x5 either way (1.05 -> 1.1, 2.05 -> 2.0), so the
\* direction is a parameter
RoundTenths(d, up) ==
    IF d % 100 = 50 /\ ~up THEN d \div 100 ELSE (d + 50) \div 100

\* mutant of RenderElapsed: the seconds of the minutes tier not reduced
\* modulo 60
RenderElapsed_total_seconds(d, up) ==
    IF d < 1000 THEN [tier |-> "ms", ms |-> IF d < 0 /\ up THEN d + 1 ELSE d]
    ELSE IF d < 60000 THEN [tier |-> "s", tenths |-> RoundTenths(d, up)]
    ELSE [tier |-> "m", minutes |-> d \div 60000, seconds |-> d \div 1000]

\* the tier policy, d = total_seconds in milliseconds:
\*   f"{int(total_seconds * 1000)}ms", f"{total_seconds:.1f}s",
\*   f"{minutes}m {seconds}s"
\* int() is exact for 0 <= d < 1000; for a stop before the start the float
\* product may fall short of the integer and int() truncates towards zero
\* (-1001 ms -> "-1000ms"), hence d or d + 1
RenderElapsed(d, up) ==
    IF d < 1000 THEN [tier |-> "ms", ms |-> IF d < 0 /\ up THEN d + 1 ELSE d]
    ELSE IF d < 60000 THEN [tier |-> "s", tenths |-> RoundTenths(d, up)]
    ELSE [tier |-> "m", minutes |-> d \div 60000,
                        seconds |-> (d % 60000) \div 1000]

\* format_duration(start, stop); tier "raise" stands for an exception that
\* leaves the function
format_duration(t1, t2, up) ==
    IF Falsy(t1) \/ Falsy(t2) THEN NA
    ELSE LET exc == ParseRaises(t1, t2) IN
         IF exc # ""
         THEN IF Caught(exc) THEN NA ELSE [tier |-> "raise", exc |-> exc]
         ELSE RenderElapsed(t2.ms - t1.ms, up)

\* every variable of an invocation at rest: the function is called on its own
Standalone ==
    /\ tool = "execution-manager"
    /\ args = [command |-> "", key |-> "", force |-> FALSE, test |-> FALSE,
               verbose |-> FALSE]
    /\ pc = "call"
    /\ Fresh

DurationInit ==
    /\ Standalone
    /\ execution = None
    /\ node_times = None
    /\ node_lines = None
    /\ all_execs = None
    /\ stats = None
    /\ start \in Timestamps
    /\ stop \in Timestamps
    /\ duration = None

FormatDurationCall ==
    /\ pc = "call"
    /\ \E up \in BOOLEAN : duration' = format_duration(start, stop, up)
    /\ pc' = "done"
    /\ UNCHANGED <<tool, args, client, requests, stdout, stderr, exit_code,
                   raised, confirm, interrupted, watchVars, debugVars,
                   statsVars, start, stop>>

DurationNext == FormatDurationCall

SpecDuration == DurationInit /\ [][DurationNext]_vars

-----------------------------------------------------------------------------
(* cmd_stats *)

\* a dict with the key k bound to a value of S, or without the key
Opt(k, S) == {<<>>} \cup {k :> v : v \in S}

\* the execution records list_executions may answer with: status present or
\* not; no timestamps, both timestamps 2 s apart, or a stoppedAt that does
\* not parse
StatsTimes ==
    {[startedAt |-> a, stoppedAt |-> b] :
        <<a, b>> \in
            {<<[kind |-> "none", ms |-> 0, aware |-> FALSE],
               [kind |-> "none", ms |-> 0, aware |-> FALSE]>>,
             <<[kind |-> "iso", ms |-> 0, aware |-> TRUE],
               [kind |-> "iso", ms |-> 2000, aware |-> TRUE]>>,
             <<[kind |-> "iso", ms |-> 0, aware |-> TRUE],
               [kind |-> "garbage", ms |-> 0, aware |-> FALSE]>>}}

StatsExecs ==
    {st @@ tm : st \in Opt("status", {"success", "error", "running"}),
                tm \in StatsTimes}

\* ex.get('status', 'unknown')
StatusOf(ex) == Get(ex, "status", "unknown")

\* status_counts[status]
StatusCount(all, status) ==
    Cardinality({i \in DOMAIN all : StatusOf(all[i]) = status})

\* the executions whose duration enters total_duration: both timestamps
\* truthy, and nothing raised inside the try block
Timed(ex) ==
    /\ ~Falsy(ex.startedAt)
    /\ ~Falsy(ex.stoppedAt)
    /\ ParseRaises(ex.startedAt, ex.stoppedAt) = ""

RECURSIVE TotalDuration(_)
TotalDuration(all) ==
    IF all = <<>> THEN 0
    ELSE (IF Timed(Head(all))
          THEN Head(all).stoppedAt.ms - Head(all).startedAt.ms
          ELSE 0) + TotalDuration(Tail(all))

CountWithDuration(all) == Cardinality({i \in DOMAIN all : Timed(all[i])})

\* mutant of RateReported: the rate printed whatever the counts
RateReported_always(success, error) == TRUE

\* `if success + error > 0`
RateReported(success, error) == success + error > 0

\* n / d as the pair <<n, d>>
Quotient(n, d) == <<n, d>>

\* cmd_stats on the list it was answered with: what is shown, every quotient
\* computed, and the divisor of every division carried out
cmd_stats(all) ==
    IF all = <<>>
    THEN [shown |-> "No executions found", total |-> 0, pct |-> <<>>,
          avg |-> None, rate |-> None, divisors |-> {}]
    ELSE LET keys == {StatusOf(all[i]) : i \in DOMAIN all}
             cwd == CountWithDuration(all)
             success == StatusCount(all, "success")
             error == StatusCount(all, "error")
         IN  [shown |-> "Execution Statistics",
              total |-> Len(all),
              pct |-> [k \in keys |->
                          Quotient(StatusCount(all, k) * 100, Len(all))],
              avg |-> IF cwd > 0
                      THEN Quotient(TotalDuration(all), cwd) ELSE None,
              rate |-> IF RateReported(success, error)
                       THEN Quotient(success * 100, success + error)
                       ELSE None,
              divisors |-> {Len(all)}
                           \cup (IF cwd > 0 THEN {cwd} ELSE {})
                           \cup (IF RateReported(success, error)
                                 THEN {success + error} ELSE {})]

StatsInit ==
    /\ Standalone
    /\ execution = None
    /\ node_times = None
    /\ node_lines = None
    /\ all_execs \in SeqsUpTo(StatsExecs, MaxExecs)
    /\ stats = None
    /\ start = None
    /\ stop = None
    /\ duration = None

StatsCall ==
    /\ pc = "call"
    /\ stats' = cmd_stats(all_execs)
    /\ pc' = "done"
    /\ UNCHANGED <<tool, args, client, requests, stdout, stderr, exit_code,
                   raised, confirm, interrupted, watchVars, debugVars,
                   all_execs, durationVars>>

StatsNext == StatsCall

SpecStats == StatsInit /\ [][StatsNext]_vars

-----------------------------------------------------------------------------
(* workflow-crud.py: the client and the command handlers *)

Req(op, o) == requests' = Append(requests, [op |-> op, outcome |-> o])

\* N8nClient._request: "return" hands the JSON body to the caller,
\* "sys_exit" is the except branch (report on stderr, sys.exit(1))
N8nClient_request(outcome) ==
    IF outcome = "ok" THEN "return" ELSE "sys_exit"

\* what the except branch of _request prints: the error, and the response
\* body when the exception carries a response
RequestErrorLines(outcome) ==
    IF outcome = "http_error" THEN <<"Error", "Response">> ELSE <<"Error">>

\* a handler that calls one client method built on _request and prints `line`
CrudCall(op, line) ==
    \E o \in Outcomes :
        /\ Req(op, o)
        /\ IF N8nClient_request(o) = "return"
           THEN stdout' = Append(stdout, line) /\ Return
           ELSE UNCHANGED stdout /\ SysExit(RequestErrorLines(o), 1)
        /\ UNCHANGED <<quiet, client, watchVars>>

Crud_cmd_list ==
    /\ Dispatched("workflow-crud", "list")
    /\ CrudCall("GET /api/v1/workflows", "Total")

Crud_cmd_get ==
    /\ Dispatched("workflow-crud", "get")
    /\ CrudCall("GET /api/v1/workflows/id", "workflow")

Crud_cmd_create ==
    /\ Dispatched("workflow-crud", "create")
    /\ CrudCall("POST /api/v1/workflows", "Created workflow")

Crud_cmd_update ==
    /\ Dispatched("workflow-crud", "update")
    /\ CrudCall("PUT /api/v1/workflows/id", "Updated workflow")

\* what the operator may type at the prompt of cmd_delete
Answers == {"y", "Y", "n", "N", "", "yes", "YES"}

\* str.lower on the answers
Lower(s) ==
    CASE s = "Y" -> "y"
      [] s = "N" -> "n"
      [] s = "YES" -> "yes"
      [] OTHER -> s

\* mutant of DeleteConfirmed: every answer but "n" counts as a yes
DeleteConfirmed_default_yes(force, answer) ==
    force \/ Lower(answer[1]) # "n"

\* cmd_delete goes on to delete_workflow; `answer` is None under --force,
\* else the one-element tuple holding the line read by input()
DeleteConfirmed(force, answer) == force \/ Lower(answer[1]) = "y"

\* the prompt is shown (and an answer read) only without --force
Prompted(force) == IF force THEN {None} ELSE {<<a>> : a \in Answers}

Crud_cmd_delete ==
    /\ Dispatched("workflow-crud", "delete")
    /\ \E answer \in Prompted(args.force) :
        /\ confirm' = answer
        /\ IF DeleteConfirmed(args.force, answer)
           THEN \E o \in Outcomes :
                  /\ Req("DELETE /api/v1/workflows/id", o)
                  /\ IF N8nClient_request(o) = "return"
                     THEN stdout' = Append(stdout, "Deleted workflow") /\ Return
                     ELSE UNCHANGED stdout /\ SysExit(RequestErrorLines(o), 1)
           ELSE /\ stdout' = Append(stdout, "Cancelled")
                /\ Return
                /\ UNCHANGED requests
    /\ UNCHANGED <<rest, interrupted, client, watchVars, debugVars, statsVars>>

Crud_cmd_activate ==
    /\ Dispatched("workflow-crud", "activate")
    /\ CrudCall("POST /api/v1/workflows/id/activate", "Activated")

Crud_cmd_deactivate ==
    /\ Dispatched("workflow-crud", "deactivate")
    /\ CrudCall("POST /api/v1/workflows/id/deactivate", "Deactivated")

Crud_cmd_export ==
    /\ Dispatched("workflow-crud", "export")
    /\ CrudCall("GET /api/v1/workflows/id", "Exported")

Crud_cmd_executions ==
    /\ Dispatched("workflow-crud", "executions")
    /\ CrudCall("GET /api/v1/executions", "Total")

Crud_cmd_execution ==
    /\ Dispatched("workflow-crud", "execution")
    /\ CrudCall("GET /api/v1/executions/id", "execution")

\* N8nClient.trigger_webhook: the route, and what the answer does to the
\* caller (requests.post outside _request, without raise_for_status)
\* mutant of WebhookEndpoint: the production route whatever the flag
WebhookEndpoint_production(test) == "webhook"

WebhookEndpoint(test) == IF test THEN "webhook-test" ELSE "webhook"

N8nClient_trigger_webhook(outcome) ==
    IF outcome = "network_error" THEN "raise" ELSE "return"

Crud_cmd_trigger ==
    /\ Dispatched("workflow-crud", "trigger")
    /\ \E o \in Outcomes :
        /\ Req(WebhookEndpoint(args.test), o)
        /\ IF N8nClient_trigger_webhook(o) = "return"
           THEN stdout' = Append(stdout, "result") /\ Return
           ELSE UNCHANGED stdout /\ Uncaught("RequestException")
    /\ UNCHANGED <<quiet, client, watchVars>>

CrudNext ==
    \/ Crud_cmd_list
    \/ Crud_cmd_get
    \/ Crud_cmd_create
    \/ Crud_cmd_update
    \/ Crud_cmd_delete
    \/ Crud_cmd_activate
    \/ Crud_cmd_deactivate
    \/ Crud_cmd_export
    \/ Crud_cmd_executions
    \/ Crud_cmd_execution
    \/ Crud_cmd_trigger

-----------------------------------------------------------------------------
(* cmd_trigger and trigger_webhook on their own *)

\* str as the tuple of its pieces, "/" being one of them
Paths == SeqsUpTo({"p", "/"}, MaxPathLen)
BaseUrls == {<<"http://h">> \o t : t \in SeqsUpTo({"/"}, 2)}

\* base_url.rstrip('/')
RECURSIVE Rstrip(_)
Rstrip(url) ==
    IF url # <<>> /\ url[Len(url)] = "/"
    THEN Rstrip(SubSeq(url, 1, Len(url) - 1)) ELSE url

\* f"{self.base_url}/{endpoint}/{path}"
WebhookUrl(base_url, test, path) ==
    base_url \o <<"/", WebhookEndpoint(test), "/">> \o path

\* action='store_true' of --test / -t: False unless the flag is given
StoreTrue(argv) == argv \cap {"--test", "-t"} # {}

\* --data: absent, text that is not JSON, or the text of a JSON object
DataTexts == {<<>>, [invalid |-> TRUE]}
                 \cup {[json |-> v] : v \in {<<>>, [k |-> 1]}}

TriggerArgs ==
    [command : {"trigger"}, key : {"secret"}, url : BaseUrls, path : Paths,
     data : DataTexts, argv : SUBSET {"--test", "-t"}]

TriggerInit ==
    /\ tool = "workflow-crud"
    /\ args \in TriggerArgs
    /\ pc = "call"
    /\ Fresh
    /\ NoData

\* main from the construction of the client on, cmd_trigger, trigger_webhook
TriggerCall ==
    /\ pc = "call"
    /\ client' = TRUE
    /\ IF args.data # <<>> /\ "json" \notin DOMAIN args.data
       THEN /\ Uncaught("JSONDecodeError")
            /\ UNCHANGED <<requests, stdout>>
       ELSE \E o \in Outcomes :
              /\ requests' = Append(requests,
                    [op |-> "POST",
                     url |-> WebhookUrl(Rstrip(args.url), StoreTrue(args.argv),
                                        args.path),
                     json |-> IF args.data # <<>> THEN args.data.json
                              ELSE <<>>,
                     outcome |-> o])
              /\ IF N8nClient_trigger_webhook(o) = "return"
                 THEN stdout' = Append(stdout, "result") /\ Return
                 ELSE UNCHANGED stdout /\ Uncaught("RequestException")
    /\ UNCHANGED <<quiet, watchVars>>

TriggerNext == TriggerCall

SpecTrigger == TriggerInit /\ [][TriggerNext]_vars

-----------------------------------------------------------------------------
(* execution-manager.py: the client, main's except clause, the handlers *)

\* mutant of ExecutionManager_get: no raise_for_status, no exception let out
ExecutionManager_get_no_raise(outcome) == "return"

\* ExecutionManager._get: "return" hands the JSON body to the caller, "raise"
\* lets the RequestException of requests.get / raise_for_status out
ExecutionManager_get(outcome) ==
    IF outcome = "ok" THEN "return" ELSE "raise"

\* the try/except around the handler in main
MainExcept(exc) ==
    IF exc = "RequestException" THEN "api_error" ELSE "uncaught"

\* an exception leaves the handler of execution-manager.py
Propagate(exc) ==
    IF MainExcept(exc) = "api_error"
    THEN SysExit(<<"API Error">>, 1)
    ELSE Uncaught(exc)

\* a handler that calls one client method built on _get and prints `line`
ExecCall(op, line) ==
    \E o \in Outcomes :
        /\ Req(op, o)
        /\ IF ExecutionManager_get(o) = "return"
           THEN stdout' = Append(stdout, line) /\ Return
           ELSE UNCHANGED stdout /\ Propagate("RequestException")
        /\ UNCHANGED <<quiet, client, watchVars>>

Exec_cmd_list ==
    /\ Dispatched("execution-manager", "list")
    /\ ExecCall("GET /api/v1/executions", "Total")

Exec_cmd_get ==
    /\ Dispatched("execution-manager", "get")
    /\ ExecCall("GET /api/v1/executions/id", "Execution")

\* cmd_errors: the list request, then one get_execution per listed execution
Exec_cmd_errors ==
    /\ Dispatched("execution-manager", "errors")
    /\ \E o \in Outcomes :
        /\ Req("GET /api/v1/executions", o)
        /\ IF ExecutionManager_get(o) = "return"
           THEN \E result \in ErrorResults :
                  IF result = <<>>
                  THEN /\ stdout' = Append(stdout, "No failed executions found")
                       /\ Return
                       /\ UNCHANGED executions
                  ELSE /\ stdout' = Append(stdout, "Recent Failed Executions")
                       /\ executions' = result
                       /\ pc' = "errors_for"
                       /\ UNCHANGED <<stderr, exit_code, raised>>
           ELSE /\ Propagate("RequestException")
                /\ UNCHANGED <<stdout, executions>>
    /\ UNCHANGED <<quiet, client, seen_ids, last_check, polls,
                   last_result, seen_before, printed_now, printed_all,
                   dropped>>

ErrorsStep ==
    /\ pc = "errors_for"
    /\ executions # <<>>
    /\ \E o \in Outcomes :
        /\ Req("GET /api/v1/executions/id", o)
        /\ IF ExecutionManager_get(o) = "return"
           THEN /\ stdout' = Append(stdout, "Error")
                /\ executions' = Tail(executions)
                /\ UNCHANGED <<pc, stderr, exit_code, raised>>
           ELSE /\ Propagate("RequestException")
                /\ UNCHANGED <<stdout, executions>>
    /\ UNCHANGED <<quiet, client, seen_ids, last_check, polls,
                   last_result, seen_before, printed_now, printed_all,
                   dropped>>

ErrorsEnd ==
    /\ pc = "errors_for"
    /\ executions = <<>>
    /\ Return
    /\ UNCHANGED <<quiet, client, requests, stdout, watchVars>>

-----------------------------------------------------------------------------
(* cmd_watch *)

\* mutant of WatchExcept: `except Exception`-style clause that also swallows
\* the failure of a poll
WatchExcept_catch_all(exc) == "break"

\* the except clause of the loop: KeyboardInterrupt breaks out of it, every
\* other exception leaves cmd_watch
WatchExcept(exc) ==
    IF exc = "KeyboardInterrupt" THEN "break" ELSE "propagate"

\* mutant of Unseen: every execution of a poll counts as new
Unseen_always(id, seen) == TRUE

\* `if ex['id'] not in seen_ids`
Unseen(id, seen) == id \notin seen

\* mutant of ShouldPrint: the first batch is printed too
ShouldPrint_always(lc) == TRUE

\* `if last_check is not None`: the first batch is recorded, not printed
ShouldPrint(lc) == lc # None

Exec_cmd_watch ==
    /\ Dispatched("execution-manager", "watch")
    /\ stdout' = Append(stdout, "Watching for executions")
    /\ seen_ids' = {}
    /\ last_check' = None
    /\ pc' = "watch_poll"
    /\ UNCHANGED <<quiet, client, requests, stderr, exit_code, raised,
                   executions, polls, last_result, seen_before, printed_now,
                   printed_all, dropped>>

\* manager.list_executions(limit=10) at the top of the loop body
WatchFetch ==
    /\ pc = "watch_poll"
    /\ polls < MaxPolls
    /\ \E o \in Outcomes :
        /\ Req("GET /api/v1/executions", o)
        /\ IF ExecutionManager_get(o) = "return"
           THEN \E result \in PollResults :
                  /\ executions' = Reversed(result)
                  /\ last_result' = result
                  /\ seen_before' = seen_ids
                  /\ printed_now' = <<>>
                  /\ dropped' = dropped \cup
                        (seen_ids \ {result[i].id : i \in DOMAIN result})
                  /\ polls' = polls + 1
                  /\ pc' = "watch_for"
                  /\ UNCHANGED <<stdout, stderr, exit_code, raised>>
           ELSE /\ IF WatchExcept("RequestException") = "break"
                   THEN stdout' = Append(stdout, "Stopped") /\ Return
                   ELSE UNCHANGED stdout /\ Propagate("RequestException")
                /\ UNCHANGED <<executions, last_result, seen_before,
                               printed_now, polls, dropped>>
    /\ UNCHANGED <<quiet, client, seen_ids, last_check, printed_all>>

\* one iteration of `for ex in reversed(executions)`
WatchStep ==
    /\ pc = "watch_for"
    /\ executions # <<>>
    /\ LET ex == Head(executions) IN
        /\ executions' = Tail(executions)
        /\ IF Unseen(ex.id, seen_ids)
           THEN /\ seen_ids' = seen_ids \cup {ex.id}
                /\ IF ShouldPrint(last_check)
                   THEN /\ stdout' = Append(stdout, "Execution")
                        /\ printed_now' = Append(printed_now, ex.id)
                        /\ printed_all' = Append(printed_all, ex.id)
                   ELSE UNCHANGED <<stdout, printed_now, printed_all>>
           ELSE UNCHANGED <<seen_ids, stdout, printed_now, printed_all>>
    /\ UNCHANGED <<quiet, pc, client, requests, stderr, exit_code,
                   raised, last_check, polls, last_result, seen_before,
                   dropped>>

\* the loop is over: last_check = datetime.now(), then time.sleep
WatchEndPoll ==
    /\ pc = "watch_for"
    /\ executions = <<>>
    /\ last_check' = <<polls>>
    /\ pc' = "watch_sleep"
    /\ UNCHANGED <<quiet, client, requests, stdout, stderr, exit_code,
                   raised, seen_ids, executions, polls, last_result,
                   seen_before, printed_now, printed_all, dropped>>

\* time.sleep(args.interval) returns
WatchWake ==
    /\ pc = "watch_sleep"
    /\ pc' = "watch_poll"
    /\ UNCHANGED <<quiet, client, requests, stdout, stderr, exit_code,
                   raised, watchVars>>

\* Ctrl+C anywhere inside the try block
WatchInterrupt ==
    /\ pc \in {"watch_poll", "watch_for", "watch_sleep"}
    /\ interrupted' = TRUE
    /\ IF WatchExcept("KeyboardInterrupt") = "break"
       THEN stdout' = Append(stdout, "Stopped") /\ Return
       ELSE UNCHANGED stdout /\ Propagate("KeyboardInterrupt")
    /\ UNCHANGED <<rest, confirm, client, requests, watchVars, debugVars,
                   statsVars>>

-----------------------------------------------------------------------------
(* cmd_debug *)

\* node names are strings, here the tuples of their code points ("A", "B")
Chars == {65, 66}
NodeNames == UNION {[1..k -> Chars] : k \in 1..MaxNameLen}

\* a < b on str: by code point, a proper prefix first
RECURSIVE StrLess(_, _)
StrLess(a, b) ==
    IF b = <<>> THEN FALSE
    ELSE IF a = <<>> THEN TRUE
    ELSE IF Head(a) # Head(b) THEN Head(a) < Head(b)
    ELSE StrLess(Tail(a), Tail(b))

\* execution.get('data', {}).get('resultData', {}).get(key, default)
ResultData(ex, key, default) ==
    Get(Get(Get(ex, "data", <<>>), "resultData", <<>>), key, default)

\* lines 184-188: one (node_name, exec_time, node_data[0]) per node that has
\* an attempt, in the key order of the response
RECURSIVE Collect(_)
Collect(run_data) ==
    IF run_data = <<>> THEN <<>>
    ELSE LET node_name == Head(run_data).name
             node_data == Head(run_data).node_data
         IN  (IF node_data # <<>>
              THEN <<[name |-> node_name,
                      exec_time |-> Get(node_data[1], "executionTime", 0),
                      data |-> node_data[1]]>>
              ELSE <<>>) \o Collect(Tail(run_data))

\* mutant of SortKey: the sort by execution time the comment announces
SortKey_exec_time(x) == <<x.exec_time>>

\* key=lambda x: x[0]
SortKey(x) == x.name

\* list.sort(key=...): stable, ascending
RECURSIVE InsertSorted(_, _)
InsertSorted(x, s) ==
    IF s = <<>> THEN <<x>>
    ELSE IF StrLess(SortKey(x), SortKey(Head(s))) THEN <<x>> \o s
    ELSE <<Head(s)>> \o InsertSorted(x, Tail(s))

RECURSIVE SortNodes(_)
SortNodes(s) ==
    IF s = <<>> THEN <<>>
    ELSE InsertSorted(s[Len(s)], SortNodes(SubSeq(s, 1, Len(s) - 1)))

RECURSIVE SumLen(_)
SumLen(main) ==
    IF main = <<>> THEN 0 ELSE Len(Head(main)) + SumLen(Tail(main))

\* mutant of ItemsOut: the number of branches, not of their items
ItemsOut_branches(data) == Len(Get(Get(data, "data", <<>>), "main", <<>>))

\* lines 194-198: the items of every non-empty branch of data['data']['main']
ItemsOut(data) == SumLen(Get(Get(data, "data", <<>>), "main", <<>>))

\* lines 192-206: what the loop prints for one entry of node_times
NodeLine(entry) ==
    [name |-> entry.name,
     failed |-> "error" \in DOMAIN entry.data,
     exec_time |-> entry.exec_time,
     items_out |-> ItemsOut(entry.data)]

NodeLines(sorted) == [i \in DOMAIN sorted |-> NodeLine(sorted[i])]

\* the run data of the invocation model: none, or two nodes "B" and "A" in
\* that order, B's attempt with every field and A's with none
CliRunDatas ==
    {<<>>,
     <<[name |-> <<66>>,
        node_data |-> <<[executionTime |-> 1,
                         data |-> [main |-> <<<<"item", "item">>, <<>>,
                                              <<"item">>>>],
                         error |-> [message |-> "boom"]]>>],
       [name |-> <<65>>, node_data |-> <<<<>>>>]>>}

ErrorObjs ==
    {m @@ r : m \in Opt("message", {"boom"}),
              r \in {<<>>, [node |-> <<66>>, description |-> "why",
                            stack |-> "trace"]}}

ResultDatas ==
    {r @@ l @@ e : r \in Opt("runData", CliRunDatas),
                   l \in Opt("lastNodeExecuted", {<<66>>}),
                   e \in Opt("error", ErrorObjs)}

\* the records get_execution may answer with: any of id, workflowId, status,
\* data, resultData, runData, lastNodeExecuted, error and the fields of the
\* error may be absent
DebugRecords ==
    {i @@ w @@ st @@ d : i \in Opt("id", {1}),
                         w \in Opt("workflowId", {"wf"}),
                         st \in Opt("status", {"error"}),
                         d \in Opt("data", Opt("resultData", ResultDatas))}

\* lines 161-166: the header, str(None) where .get finds nothing
DebugHeader(ex) ==
    <<"EXECUTION DEBUG",
      IF "workflowId" \in DOMAIN ex
        THEN "Workflow ID: wf" ELSE "Workflow ID: None",
      IF "status" \in DOMAIN ex THEN "Status: error" ELSE "Status: None">>

\* lines 175-230: the report below the workflow name
DebugBody(ex, verbose) ==
    LET run_data == ResultData(ex, "runData", <<>>)
        last_node == ResultData(ex, "lastNodeExecuted", <<>>)
        error == ResultData(ex, "error", <<>>)
    IN  (IF run_data # <<>> THEN <<"NODE EXECUTION DETAILS">> ELSE <<>>)
        \o (IF last_node # <<>> THEN <<"Last node executed">> ELSE <<>>)
        \o (IF error # <<>>
            THEN <<"ERROR DETAILS",
                   IF "message" \in DOMAIN error
                     THEN "Message: boom" ELSE "Message: str(error)",
                   IF "node" \in DOMAIN error
                     THEN "Node: B" ELSE "Node: N/A">>
                 \o (IF Get(error, "description", "") # ""
                     THEN <<"Description">> ELSE <<>>)
                 \o (IF Get(error, "stack", "") # "" /\ verbose
                     THEN <<"Stack trace">> ELSE <<>>)
            ELSE <<>>)

\* get_execution, then lines 156-166; execution['id'] is a subscript
Exec_cmd_debug ==
    /\ Dispatched("execution-manager", "debug")
    /\ \E o \in Outcomes :
        /\ Req("GET /api/v1/executions/id", o)
        /\ IF ExecutionManager_get(o) = "return"
           THEN \E ex \in DebugRecords :
                  /\ execution' = ex
                  /\ IF "id" \in DOMAIN ex
                     THEN /\ stdout' = stdout \o DebugHeader(ex)
                          /\ pc' = "debug_workflow"
                          /\ UNCHANGED <<stderr, exit_code, raised>>
                     ELSE /\ stdout' = Append(stdout, "====")
                          /\ Propagate("KeyError")
           ELSE /\ Propagate("RequestException")
                /\ UNCHANGED <<stdout, execution>>
    /\ UNCHANGED <<rest, confirm, interrupted, client, watchVars, node_times,
                   node_lines, statsVars>>

\* mutant of NameExcept: no try around the fetch of the workflow name
NameExcept_none(exc) == "propagate"

\* lines 168-172: `except Exception: pass` around get_workflow and the print
\* of the name
NameExcept(exc) == "pass"

\* lines 168-230: the get_workflow inside the try, then the rest of the
\* report
DebugReport ==
    /\ pc = "debug_workflow"
    /\ \E o \in Outcomes :
        /\ Req("GET /api/v1/workflows/id", o)
        /\ IF ExecutionManager_get(o) = "return"
              \/ NameExcept("RequestException") = "pass"
           THEN /\ stdout' = stdout
                     \o (IF ExecutionManager_get(o) = "return"
                         THEN <<"Workflow: name">> ELSE <<>>)
                     \o DebugBody(execution, args.verbose)
                /\ node_times' = SortNodes(Collect(ResultData(execution,
                                                              "runData", <<>>)))
                /\ node_lines' = NodeLines(node_times')
                /\ Return
           ELSE /\ Propagate("RequestException")
                /\ UNCHANGED <<stdout, node_times, node_lines>>
    /\ UNCHANGED <<rest, confirm, interrupted, client, watchVars, execution,
                   statsVars>>

-----------------------------------------------------------------------------
(* the node listing of cmd_debug on its own *)

\* node_data of one node: no attempt, or one attempt with or without an
\* executionTime
NodeDatas == {<<>>} \cup {<<a>> : a \in Opt("executionTime", {1, 2})}

\* runData as the server sends it: node names are the keys of a JSON object,
\* so no name comes twice; the order is the server's
RunDatas ==
    {rd \in SeqsUpTo([name : NodeNames, node_data : NodeDatas], MaxNodes) :
        \A i, j \in DOMAIN rd : i # j => rd[i].name # rd[j].name}

NodesInit ==
    /\ Standalone
    /\ execution \in {[id |-> 1, data |-> [resultData |-> [runData |-> rd]]] :
                        rd \in RunDatas}
    /\ node_times = None
    /\ node_lines = None
    /\ all_execs = None
    /\ stats = None
    /\ start = None
    /\ stop = None
    /\ duration = None

\* lines 176-202 of cmd_debug
DebugNodes ==
    /\ pc = "call"
    /\ node_times' = SortNodes(Collect(ResultData(execution, "runData", <<>>)))
    /\ node_lines' = NodeLines(node_times')
    /\ pc' = "done"
    /\ UNCHANGED <<tool, args, client, requests, stdout, stderr, exit_code,
                   raised, confirm, interrupted, watchVars, execution,
                   statsVars, durationVars>>

NodesNext == DebugNodes

SpecNodes == NodesInit /\ [][NodesNext]_vars

-----------------------------------------------------------------------------
(* the item counts of cmd_debug on their own *)

\* one output branch: null or a list of items; None and [] are one value
Branches == SeqsUpTo({"item"}, MaxItems)

\* one attempt of a node: 'data' and its 'main' may be absent
Attempts == Opt("data", Opt("main", SeqsUpTo(Branches, MaxBranches)))

\* node_data of one node: no attempt, one attempt, or a first attempt and a
\* retry
AttemptLists == {<<>>} \cup {<<a>> : a \in Attempts}
                       \cup {<<a, b>> : a \in Attempts, b \in Attempts}

ItemsInit ==
    /\ Standalone
    /\ execution \in {[id |-> 1,
                       data |-> [resultData |-> [runData |->
                                   <<[name |-> <<65>>, node_data |-> nd]>>]]] :
                        nd \in AttemptLists}
    /\ node_times = None
    /\ node_lines = None
    /\ all_execs = None
    /\ stats = None
    /\ start = None
    /\ stop = None
    /\ duration = None

SpecItems == ItemsInit /\ [][NodesNext]_vars

-----------------------------------------------------------------------------
(* cmd_stats inside an invocation *)

\* list_executions(limit=100), then the statistics of the answer
Exec_cmd_stats ==
    /\ Dispatched("execution-manager", "stats")
    /\ \E o \in Outcomes :
        /\ Req("GET /api/v1/executions", o)
        /\ IF ExecutionManager_get(o) = "return"
           THEN \E all \in SeqsUpTo(StatsExecs, 1) :
                  /\ all_execs' = all
                  /\ stats' = cmd_stats(all)
                  /\ stdout' = Append(stdout, stats'.shown)
                  /\ Return
           ELSE /\ Propagate("RequestException")
                /\ UNCHANGED <<stdout, statsVars>>
    /\ UNCHANGED <<rest, confirm, interrupted, client, watchVars, debugVars>>

ExecNext ==
    \/ Exec_cmd_list
    \/ Exec_cmd_get
    \/ Exec_cmd_debug
    \/ DebugReport
    \/ Exec_cmd_stats
    \/ Exec_cmd_errors
    \/ ErrorsStep
    \/ ErrorsEnd
    \/ Exec_cmd_watch
    \/ WatchFetch
    \/ WatchStep
    \/ WatchEndPoll
    \/ WatchWake
    \/ WatchInterrupt

Next ==
    \/ MainNoCommand
    \/ MainNoKey
    \/ MainConstruct
    \/ CrudNext
    \/ ExecNext

Spec == Init /\ [][Next]_vars

-----------------------------------------------------------------------------
(* Claims checked under Spec *)

ResultIds(result) == {result[i].id : i \in DOMAIN result}

\* C1: in cmd_watch no id is printed during the first poll (its ids are only
\* recorded in seen_ids), and when a second or later poll has been worked
\* through, the ids printed during it are exactly the ids it returned that
\* were not in seen_ids when it was answered.
C1_WatchPrintsUnseenAfterFirstPoll ==
    /\ polls <= 1 => printed_now = <<>> /\ printed_all = <<>>
    /\ pc = "watch_sleep" =>
          /\ ResultIds(last_result) \subseteq seen_ids
          /\ polls >= 2 =>
                SeqSet(printed_now) = ResultIds(last_result) \ seen_before

\* C1 witness: the second poll is over, it printed an id, and the first poll
\* had recorded ids without printing them.
C1_Witness ==
    /\ pc = "watch_sleep"
    /\ polls = 2
    /\ printed_now # <<>>
    /\ seen_before # {}
    /\ Len(printed_all) = Len(printed_now)

WatchLoopEnded ==
    /\ tool = "execution-manager"
    /\ args.command = "watch"
    /\ pc = "exited"
    /\ client

LastRequestFailed ==
    /\ requests # <<>>
    /\ requests[Len(requests)].outcome # "ok"

BestEffort(r) ==
    tool = "execution-manager" /\ r.op = "GET /api/v1/workflows/id"

\* C3: a failed request of any client operation other than the best-effort
\* workflow-name fetch ends the invocation with an error report and a
\* nonzero exit status.
C3_FailedRequestIsFatal ==
    (/\ pc = "exited"
     /\ \E i \in DOMAIN requests :
            requests[i].outcome # "ok" /\ ~BestEffort(requests[i]))
    => exit_code # 0 /\ stderr # <<>>

\* C4: with a subcommand and an empty API key, main reports on standard error
\* and exits nonzero before the client is constructed: no request is issued
\* and no handler runs.
C4_NoKeyNoClient ==
    (args.command # "" /\ args.key = "") =>
        /\ ~client
        /\ requests = <<>>
        /\ stdout = <<>>
        /\ pc \in {"main", "exited"}
        /\ pc = "exited" =>
              /\ stderr = <<"Error: N8N_API_KEY not set">>
              /\ exit_code = 1

\* C4 witness: an invocation with a subcommand and no key has exited.
C4_Witness ==
    /\ args.command # ""
    /\ args.key = ""
    /\ pc = "exited"

DeleteIssued ==
    \E i \in DOMAIN requests : requests[i].op = "DELETE /api/v1/workflows/id"

SaidYes == confirm # None /\ confirm[1] \in {"y", "Y"}

\* C5: cmd_delete issues the DELETE request only under --force or after the
\* answer 'y' / 'Y'; a declined prompt sends nothing, prints "Cancelled" and
\* ends with exit status 0 and nothing on standard error.
C5_DeleteNeedsForceOrYes ==
    (tool = "workflow-crud" /\ args.command = "delete") =>
        /\ DeleteIssued => args.force \/ SaidYes
        /\ (pc = "exited" /\ client /\ ~args.force /\ ~SaidYes) =>
              /\ requests = <<>>
              /\ stdout = <<"Cancelled">>
              /\ stderr = <<>>
              /\ exit_code = 0

\* C5 witness: the prompt was answered with something other than y/Y and the
\* invocation has ended.
C5_Witness ==
    /\ tool = "workflow-crud"
    /\ args.command = "delete"
    /\ pc = "exited"
    /\ confirm # None
    /\ ~SaidYes
    /\ stdout = <<"Cancelled">>

\* get_execution of cmd_debug answered with a record
DebugFetched ==
    /\ tool = "execution-manager"
    /\ args.command = "debug"
    /\ requests # <<>>
    /\ requests[1].outcome = "ok"

\* C9: whatever fields are absent from the record the server returned, id
\* included, cmd_debug completes without raising.
C9_DebugToleratesMissingFields ==
    (DebugFetched /\ pc = "exited") => raised = "" /\ exit_code = 0

NameFetched == pc = "exited" /\ Len(requests) = 2 /\ args.command = "debug"

\* C13: when the fetch of the workflow name in cmd_debug fails, the name line
\* is left out, nothing is written on standard error, the rest of the report
\* (node details, last node, error details) is printed as it is after a
\* successful fetch, and the invocation ends with status 0.
C13_NameFetchBestEffort ==
    (NameFetched /\ requests[2].outcome # "ok") =>
        /\ stdout = DebugHeader(execution) \o DebugBody(execution, args.verbose)
        /\ "Workflow: name" \notin SeqSet(stdout)
        /\ stderr = <<>>
        /\ exit_code = 0
        /\ raised = ""
        /\ Len(node_lines) = Len(Collect(ResultData(execution, "runData",
                                                    <<>>)))

\* C13 witness: the name fetch met a network error, and the report of an
\* execution with node data, a last node and an error has been printed
\* without the name.
C13_Witness ==
    /\ NameFetched
    /\ requests[2].outcome = "network_error"
    /\ "NODE EXECUTION DETAILS" \in SeqSet(stdout)
    /\ "Last node executed" \in SeqSet(stdout)
    /\ "ERROR DETAILS" \in SeqSet(stdout)
    /\ "Workflow: name" \notin SeqSet(stdout)
    /\ exit_code = 0

\* a command other than watch has run its handler and the process has ended
HandlerEnded == pc = "exited" /\ client /\ args.command # "watch"

Lines(line) == Cardinality({i \in DOMAIN stdout : stdout[i] = line})

C15_SeenGrowsPrintedOnce ==
    [][/\ seen_ids \subseteq seen_ids'
       /\ pc' = "watch_sleep" => ResultIds(last_result') \subseteq seen_ids'
       /\ printed_all' # printed_all =>
             \E id \in Ids :
                /\ printed_all' = Append(printed_all, id)
                /\ id \notin seen_ids
                /\ id \notin SeqSet(printed_all)
                /\ id \in seen_ids']_vars

\* C15 witness: the third poll is over; id 1 was recorded, a later poll left
\* it out, the third poll returned it again and it has not been printed,
\* while another id has.
C15_Witness ==
    /\ pc = "watch_sleep"
    /\ polls = 3
    /\ 1 \in dropped
    /\ 1 \in ResultIds(last_result)
    /\ 1 \notin SeqSet(printed_all)
    /\ printed_all # <<>>

-----------------------------------------------------------------------------
(* Claims checked under SpecDuration *)

\* the elapsed time a rendered duration stands for, in milliseconds
Rendered(r) ==
    CASE r.tier = "ms" -> r.ms
      [] r.tier = "s" -> r.tenths * 100
      [] r.tier = "m" -> (r.minutes * 60 + r.seconds) * 1000

Comparable(t1, t2) ==
    t1.kind = "iso" /\ t2.kind = "iso" /\ t1.aware = t2.aware

Elapsed == {b - a : a \in Instants, b \in Instants} \cap Nat

\* C7: for ISO timestamps t1 <= t2, an elapsed time under 1 s renders as the
\* whole milliseconds, one of at least 1 s and under 60 s as seconds rounded
\* to one decimal, one of 60 s or more as minutes and seconds in 0..59; and
\* the rendered value never decreases when the elapsed time grows.
C7_DurationTiersMonotonic ==
    (pc = "done" /\ Comparable(start, stop) /\ start.ms <= stop.ms) =>
        LET d == stop.ms - start.ms IN
        /\ d < 1000 => duration.tier = "ms" /\ duration.ms = d
        /\ (1000 <= d /\ d < 60000) =>
              /\ duration.tier = "s"
              /\ duration.tenths * 100 - d \in -50..50
        /\ d >= 60000 =>
              /\ duration.tier = "m"
              /\ duration.seconds \in 0..59
              /\ duration.minutes * 60 + duration.seconds = d \div 1000
        /\ \A d2 \in Elapsed : \A up \in BOOLEAN :
              d2 < d => Rendered(RenderElapsed(d2, up)) <= Rendered(duration)

\* C7 witness: an elapsed time of a minute or more, with seconds left over,
\* has been rendered.
C7_Witness ==
    /\ pc = "done"
    /\ Comparable(start, stop)
    /\ stop.ms - start.ms > 60000
    /\ duration.tier = "m"
    /\ duration.seconds > 0

\* C8: format_duration returns the placeholder, and raises nothing, whenever
\* its start or its stop is missing (None or empty) or does not parse.
C8_DurationPlaceholder ==
    (pc = "done" /\ (start.kind # "iso" \/ stop.kind # "iso")) =>
        duration = NA

\* C8 witness: a call with a timestamp that does not parse, the other one
\* being a valid timestamp, has returned.
C8_Witness ==
    /\ pc = "done"
    /\ start.kind = "iso"
    /\ stop.kind = "garbage"
    /\ duration = NA

-----------------------------------------------------------------------------
(* Claims checked under SpecStats *)

WithStatus(all, status) ==
    Cardinality({i \in DOMAIN all :
                    "status" \in DOMAIN all[i] /\ all[i].status = status})

\* C6: with S executions of status 'success' and E of status 'error',
\* cmd_stats reports the success rate S / (S + E) * 100 when S + E > 0 and
\* none when S + E = 0, and none of its divisions has a zero divisor, the
\* empty list included.
C6_SuccessRate ==
    pc = "done" =>
        LET S == WithStatus(all_execs, "success")
            E == WithStatus(all_execs, "error")
        IN  /\ S + E > 0 =>
                  /\ stats.rate # None
                  /\ stats.rate[2] = S + E
                  /\ stats.rate[1] * (S + E) = S * 100 * stats.rate[2]
            /\ S + E = 0 => stats.rate = None
            /\ 0 \notin stats.divisors
            /\ all_execs = <<>> => stats.divisors = {}

\* C6 witness: statistics of a list holding a success, an error and an
\* execution in another state, which is left out of the denominator.
C6_Witness ==
    /\ pc = "done"
    /\ WithStatus(all_execs, "success") = 1
    /\ WithStatus(all_execs, "error") = 1
    /\ Len(all_execs) = 3
    /\ stats.rate = <<100, 2>>

-----------------------------------------------------------------------------
(* Claims checked under SpecNodes *)

RunDataOf(ex) == ex.data.resultData.runData

-----------------------------------------------------------------------------
(* Claims checked under SpecItems *)

\* the items of an output: one per position of every branch
ItemPositions(main) ==
    UNION {{<<b, k>> : k \in DOMAIN main[b]} : b \in DOMAIN main}

FirstAttempt(ex) == RunDataOf(ex)[1].node_data[1]

\* C11: the item count cmd_debug reports for a node is the sum of the lengths
\* of the branches of data.main of the node's first attempt only; an empty or
\* null branch contributes 0 and an absent data or main gives 0, whatever a
\* later attempt holds.
C11_ItemsOutOfFirstAttempt ==
    (pc = "done" /\ RunDataOf(execution)[1].node_data # <<>>) =>
        LET first == FirstAttempt(execution)
            main == IF "data" \in DOMAIN first /\ "main" \in DOMAIN first.data
                    THEN first.data.main ELSE <<>>
        IN  /\ Len(node_lines) = 1
            /\ node_lines[1].items_out = Cardinality(ItemPositions(main))
            /\ (\A b \in DOMAIN main : main[b] = <<>>)
                  => node_lines[1].items_out = 0

\* C11 witness: the first attempt's branches are [[item, item], [], [item]]
\* and a retry holds one more item; 3 is reported.
C11_Witness ==
    /\ pc = "done"
    /\ RunDataOf(execution)[1].node_data
          = <<[data |-> [main |-> <<<<"item", "item">>, <<>>, <<"item">>>>]],
              [data |-> [main |-> <<<<"item">>>>]]>>
    /\ node_lines[1].items_out = 3

-----------------------------------------------------------------------------
(* Claims checked under SpecTrigger *)

FlagGiven == "--test" \in args.argv \/ "-t" \in args.argv

\* C12: trigger_webhook posts once, to <base_url>/webhook-test/<path> when
\* the test flag is given and to <base_url>/webhook/<path> when it is not,
\* whatever the path and the payload; without the flag the production route
\* is used.
C12_WebhookRoute ==
    (pc = "exited" /\ requests # <<>>) =>
        LET url == requests[1].url
            base == Rstrip(args.url)
            n == Len(base)
        IN  /\ Len(requests) = 1
            /\ requests[1].op = "POST"
            /\ Len(url) = n + 3 + Len(args.path)
            /\ SubSeq(url, 1, n) = base
            /\ url[n + 1] = "/" /\ url[n + 3] = "/"
            /\ url[n + 2] = (IF FlagGiven THEN "webhook-test" ELSE "webhook")
            /\ SubSeq(url, n + 4, Len(url)) = args.path

\* C12 witness: `trigger p/ --test -d '{"k": 1}'` against a base URL written
\* with a trailing slash has posted to http://h/webhook-test/p/.
C12_Witness ==
    /\ pc = "exited"
    /\ args.argv = {"--test"}
    /\ args.url = <<"http://h", "/">>
    /\ Len(requests) = 1
    /\ requests[1].url = <<"http://h", "/", "webhook-test", "/", "p", "/">>
    /\ requests[1].json = [k |-> 1]

=============================================================================
